---- MODULE Spec2Model ----
(***************************************************************************)
(* A model of the extractors of resume_parser.py.  Text is kept as TLA+    *)
(* strings and every keyword test, regular expression and string           *)
(* conversion of the source is computed character by character.  One       *)
(* specification per extractor: Init draws the extractor's arguments from  *)
(* a bounded set, the actions are the steps of its loop.                   *)
(***************************************************************************)
EXTENDS Naturals, Sequences, FiniteSets, TLC

VARIABLES
    fn,                 \* the extractor that was called
    input_data,         \* its argument(s)
    pc,                 \* "start", "loop", "done", "returned" or "raised"
    lines,              \* the sequence the loop runs over
    i,                  \* 1-based position of the loop in that sequence
    in_section,         \* extract_education, extract_section, awards: in_section
    current_edu,        \* extract_education: the accumulator
    education,          \* extract_education: the result list
    current_job,        \* extract_work_experience: the accumulator
    experience,         \* extract_work_experience: the result list
    in_summary,         \* extract_summary: in_summary
    summary,            \* extract_summary: the appended sentences
    section_content,    \* extract_section: the gathered lines
    awards_and_certs,   \* extract_awards_and_certifications: the result list
    skills,             \* extract_skills: the retained skills
    ret                 \* the value returned to the caller, NoValue before

\* The locals of each extractor; an extractor leaves the others' alone.
eduVars == <<current_edu, education>>
workVars == <<current_job, experience>>
summaryVars == <<in_summary, summary>>
listVars == <<section_content, awards_and_certs, skills>>

args == <<fn, input_data>>
notEdu == <<workVars, summaryVars, listVars>>
notWork == <<eduVars, summaryVars, listVars>>
notSummary == <<eduVars, workVars, listVars>>
onlyCommon == <<eduVars, workVars, summaryVars, listVars>>

vars == <<fn, input_data, pc, lines, i, in_section, eduVars, workVars, summaryVars,
          listVars, ret>>

\* ------------------------------------------------------------------ bounds

\* Longest enumerated input (lines, tokens, sentences or entities).
MaxLines == 4

\* ------------------------------------------------------------------ strings

\* What ret holds before the extractor has returned.
NoValue == <<>>

Ch(s, p) == SubSeq(s, p, p)

UpperChars == "ABCDEFGHIJKLMNOPQRSTUVWXYZ"
LowerChars == "abcdefghijklmnopqrstuvwxyz"
DigitChars == "0123456789"

UpperSet == {Ch(UpperChars, k) : k \in 1..Len(UpperChars)}
LowerSet == {Ch(LowerChars, k) : k \in 1..Len(LowerChars)}
DigitSet == {Ch(DigitChars, k) : k \in 1..Len(DigitChars)}
SpaceSet == {" ", "\t", "\n", "\r"}

ToLower == [c \in UpperSet |->
              Ch(LowerChars, CHOOSE k \in 1..Len(UpperChars) : Ch(UpperChars, k) = c)]
ToUpper == [c \in LowerSet |->
              Ch(UpperChars, CHOOSE k \in 1..Len(LowerChars) : Ch(LowerChars, k) = c)]

IsUpperCh(c) == c \in UpperSet
IsDigitCh(c) == c \in DigitSet
IsSpaceCh(c) == c \in SpaceSet

LowerCh(c) == IF c \in UpperSet THEN ToLower[c] ELSE c
UpperCh(c) == IF c \in LowerSet THEN ToUpper[c] ELSE c

\* str.lower()
RECURSIVE Lower(_)
Lower(s) == IF s = "" THEN "" ELSE LowerCh(Head(s)) \o Lower(Tail(s))

\* `sub in s`
Contains(sub, s) ==
    \E p \in 1..(Len(s) + 1) :
        /\ p + Len(sub) - 1 <= Len(s)
        /\ SubSeq(s, p, p + Len(sub) - 1) = sub

StartsWith(s, pre) == Len(pre) <= Len(s) /\ SubSeq(s, 1, Len(pre)) = pre

\* any(keyword in s for keyword in keywords)
ContainsAny(keywords, s) == \E k \in 1..Len(keywords) : Contains(keywords[k], s)

RECURSIVE LStrip(_)
LStrip(s) == IF s # "" /\ IsSpaceCh(Head(s)) THEN LStrip(Tail(s)) ELSE s

RECURSIVE RStrip(_)
RStrip(s) ==
    IF s # "" /\ IsSpaceCh(Ch(s, Len(s))) THEN RStrip(SubSeq(s, 1, Len(s) - 1)) ELSE s

\* str.strip()
Strip(s) == RStrip(LStrip(s))

\* str.split(sep) for a one-character separator
RECURSIVE SplitFrom(_, _, _)
SplitFrom(s, sep, from) ==
    IF \E p \in from..Len(s) : Ch(s, p) = sep
    THEN LET p == CHOOSE q \in from..Len(s) :
                    /\ Ch(s, q) = sep
                    /\ \A r \in from..(q - 1) : Ch(s, r) # sep
         IN  <<SubSeq(s, from, p - 1)>> \o SplitFrom(s, sep, p + 1)
    ELSE <<SubSeq(s, from, Len(s))>>

Split(s, sep) == SplitFrom(s, sep, 1)

\* sep.join(parts)
RECURSIVE Join(_, _)
Join(sep, parts) ==
    IF parts = <<>> THEN ""
    ELSE IF Len(parts) = 1 THEN parts[1]
    ELSE parts[1] \o sep \o Join(sep, Tail(parts))

\* All sequences over S of length at most n.
RECURSIVE SeqsUpTo(_, _)
SeqsUpTo(S, n) ==
    IF n = 0 THEN {<<>>}
    ELSE LET shorter == SeqsUpTo(S, n - 1)
         IN  shorter \cup {Append(q, x) : q \in {r \in shorter : Len(r) = n - 1}, x \in S}

\* ------------------------------------------------------------------ dicts

EmptyDict == <<>>

Has(d, k) == k \in DOMAIN d

DictSet(d, k, v) == [x \in (DOMAIN d) \cup {k} |-> IF x = k THEN v ELSE d[x]]

\* ------------------------------------------------------------------ extract_education

EduSectionKeywords == <<"education", "academic background", "academic history">>
EduEndKeywords == <<"experience", "skills", "projects">>
DegreeAlternatives ==
    <<"bachelor", "master", "phd", "doctorate", "bs", "ba", "ms", "ma", "mba",
      "md", "jd", "b.s.", "m.s.">>

\* re.match(r'(bachelor|master|...|b\.s\.|m\.s\.)', clean_line, re.IGNORECASE)
DegreeMatch(clean_line) ==
    \E k \in 1..Len(DegreeAlternatives) :
        StartsWith(Lower(clean_line), DegreeAlternatives[k])

RECURSIVE SkipSpace(_, _)
SkipSpace(s, p) ==
    IF p <= Len(s) /\ IsSpaceCh(Ch(s, p)) THEN SkipSpace(s, p + 1) ELSE p

FourDigits(s, p) == p + 3 <= Len(s) /\ \A q \in p..(p + 3) : IsDigitCh(Ch(s, q))

\* End position of a match of
\*   \d{4}\s*-\s*\d{4}|\d{4}\s*-\s*(present|current)   (re.IGNORECASE)
\* starting exactly at p, 0 when there is none.
DateMatchEnd(s, p) ==
    IF ~FourDigits(s, p) THEN 0
    ELSE LET d == SkipSpace(s, p + 4)
         IN  IF d > Len(s) \/ Ch(s, d) # "-" THEN 0
             ELSE LET r == SkipSpace(s, d + 1)
                  IN  IF FourDigits(s, r) THEN r + 3
                      ELSE IF r + 6 <= Len(s)
                              /\ Lower(SubSeq(s, r, r + 6)) \in {"present", "current"}
                           THEN r + 6
                           ELSE 0

\* Start of the leftmost match at or after p, 0 when there is none.
RECURSIVE DateFind(_, _)
DateFind(s, p) ==
    IF p > Len(s) THEN 0
    ELSE IF DateMatchEnd(s, p) > 0 THEN p
    ELSE DateFind(s, p + 1)

\* Whether re.search(...) finds a match.
HasDate(s) == DateFind(s, 1) > 0

\* re.search(...).group(): the leftmost match ("" stands for no match object).
DateSearch(s) ==
    LET p == DateFind(s, 1)
    IN  IF p > 0 THEN SubSeq(s, p, DateMatchEnd(s, p)) ELSE ""

\* token.is_space
IsSpaceToken(t) == \A p \in 1..Len(t) : IsSpaceCh(Ch(t, p))

\* [token.text for token in input_data if not token.is_space]
DocLines(tokens) == SelectSeq(tokens, LAMBDA t : ~IsSpaceToken(t))

StripAll(ls) == [k \in 1..Len(ls) |-> Strip(ls[k])]

\* [line.strip() for line in input_data.split('\n') if line.strip()]
StrLines(text) == SelectSeq(StripAll(Split(text, "\n")), LAMBDA l : l # "")

\* Raw lines a string argument is made of, and tokens of a document argument.
EduRawLines ==
    {"Education", "Bachelor of Science", "MIT", "Sept 2015 - Present",
     "Work Experience", "  ", " GPA 3.9", "Education & Skills"}
EduTokens == {"EDUCATION", "BS", "MIT", "2015-2019", "Skills", " "}

\* The section of the education field order law, under its header.
EduExample ==
    <<"Education", "Bachelor of Science", "in Computer Science", "MIT",
      "Cambridge, MA", "2015-2019">>

\* A section that is left and entered again.
EduReentry ==
    <<"Education", "2015-2019", "Work Experience", "MIT", "Education",
      "Bachelor of Science">>

\* A section with two year ranges after the location.
EduTwoRanges ==
    <<"Education", "BS", "MIT", "Cambridge, MA", "2015-2019", "2016 - Present">>

EduInputs ==
    {[kind |-> "str", value |-> Join("\n", q)] :
        q \in SeqsUpTo(EduRawLines, MaxLines)
              \cup {EduExample, EduReentry, EduTwoRanges}}
    \cup {[kind |-> "doc", value |-> q] : q \in SeqsUpTo(EduTokens, MaxLines)}
    \cup {[kind |-> "list", value |-> <<"Education", "BS">>],
          [kind |-> "bytes", value |-> "Education\nBS"],
          [kind |-> "none", value |-> 0]}

\* The locals an extractor does not have.
NoEdu == current_edu = <<>> /\ education = <<>>
NoWork == current_job = <<>> /\ experience = <<>>
NoSummary == in_summary = FALSE /\ summary = <<>>
NoLists == section_content = <<>> /\ awards_and_certs = <<>> /\ skills = <<>>

EduInit ==
    /\ fn = "extract_education"
    /\ NoWork /\ NoSummary /\ NoLists
    /\ input_data \in EduInputs
    /\ pc = "start"
    /\ lines = <<>>
    /\ i = 1
    /\ in_section = FALSE
    /\ current_edu = EmptyDict
    /\ education = <<>>
    /\ ret = NoValue

\* isinstance(input_data, spacy.tokens.Doc)
EduFromDoc ==
    /\ fn = "extract_education" /\ pc = "start"
    /\ input_data.kind = "doc"
    /\ lines' = DocLines(input_data.value)
    /\ pc' = "loop"
    /\ UNCHANGED <<args, i, in_section, current_edu, education, ret, notEdu>>

\* isinstance(input_data, str)
EduFromStr ==
    /\ fn = "extract_education" /\ pc = "start"
    /\ input_data.kind = "str"
    /\ lines' = StrLines(input_data.value)
    /\ pc' = "loop"
    /\ UNCHANGED <<args, i, in_section, current_edu, education, ret, notEdu>>

\* The type test without its else branch: the loop runs on no lines.
EduNoRaise ==
    /\ fn = "extract_education" /\ pc = "start"
    /\ input_data.kind \notin {"doc", "str"}
    /\ pc' = "loop"
    /\ UNCHANGED <<args, lines, i, in_section, current_edu, education, ret, notEdu>>

\* raise ValueError(...)
EduRaise ==
    /\ fn = "extract_education" /\ pc = "start"
    /\ input_data.kind \notin {"doc", "str"}
    /\ pc' = "raised"
    /\ UNCHANGED <<args, lines, i, in_section, current_edu, education, ret, notEdu>>

EduAtLine == fn = "extract_education" /\ pc = "loop" /\ i <= Len(lines)

IsEduHeader(line) == ContainsAny(EduSectionKeywords, Lower(line))
IsEduEnd(line) == ContainsAny(EduEndKeywords, Lower(line))

\* The value line 195 stores as the degree.
DegreeValue(ls, k) == IF k + 1 <= Len(ls) THEN ls[k] \o " " \o ls[k + 1] ELSE ls[k]

\* A section header line: lines 175-177.
EduHeader ==
    /\ EduAtLine
    /\ IsEduHeader(lines[i])
    /\ in_section' = TRUE
    /\ i' = i + 1
    /\ UNCHANGED <<args, pc, lines, current_edu, education, ret, notEdu>>

\* The same without the flush.
EduEndKeeps ==
    /\ EduAtLine
    /\ ~IsEduHeader(lines[i])
    /\ in_section /\ IsEduEnd(lines[i])
    /\ in_section' = FALSE
    /\ i' = i + 1
    /\ UNCHANGED <<args, pc, lines, current_edu, education, ret, notEdu>>

\* The end of the section: lines 180-185.
EduEnd ==
    /\ EduAtLine
    /\ ~IsEduHeader(lines[i])
    /\ in_section /\ IsEduEnd(lines[i])
    /\ in_section' = FALSE
    /\ IF current_edu # EmptyDict
       THEN education' = Append(education, current_edu) /\ current_edu' = EmptyDict
       ELSE UNCHANGED <<education, current_edu>>
    /\ i' = i + 1
    /\ UNCHANGED <<args, pc, lines, ret, notEdu>>

\* A line outside the section falls through the loop body.
EduOutside ==
    /\ EduAtLine
    /\ ~IsEduHeader(lines[i])
    /\ ~in_section
    /\ i' = i + 1
    /\ UNCHANGED <<args, pc, lines, in_section, current_edu, education, ret, notEdu>>

\* The same without the in_section test.
EduInsideAlways ==
    /\ EduAtLine
    /\ ~IsEduHeader(lines[i])
    /\ ~IsEduEnd(lines[i])

\* Line 188: a line of the section that is neither its header nor its end.
EduInside ==
    /\ EduAtLine
    /\ ~IsEduHeader(lines[i])
    /\ in_section /\ ~IsEduEnd(lines[i])

\* The same with the flush only when a degree is already set.
EduDegreeKeepsPartial ==
    /\ EduInside
    /\ DegreeMatch(Lower(lines[i]))
    /\ IF Has(current_edu, "degree")
       THEN /\ education' = Append(education, current_edu)
            /\ current_edu' = DictSet(EmptyDict, "degree", DegreeValue(lines, i))
       ELSE /\ education' = education
            /\ current_edu' = DictSet(current_edu, "degree", DegreeValue(lines, i))
    /\ i' = i + 1
    /\ UNCHANGED <<args, pc, lines, in_section, ret, notEdu>>

\* Lines 190-196.
EduDegree ==
    /\ EduInside
    /\ DegreeMatch(Lower(lines[i]))
    /\ IF current_edu # EmptyDict
       THEN /\ education' = Append(education, current_edu)
            /\ current_edu' = DictSet(EmptyDict, "degree", DegreeValue(lines, i))
       ELSE /\ education' = education
            /\ current_edu' = DictSet(current_edu, "degree", DegreeValue(lines, i))
    /\ i' = i + 1
    /\ UNCHANGED <<args, pc, lines, in_section, ret, notEdu>>

\* The same without the test for a degree.
WantsInstitutionAlways(d) == ~Has(d, "institution")

\* Line 199.
WantsInstitution(d) == ~Has(d, "institution") /\ Has(d, "degree")
WantsLocation(d) == ~Has(d, "location") /\ Has(d, "institution")

\* Lines 199-201.
EduInstitution ==
    /\ EduInside
    /\ ~DegreeMatch(Lower(lines[i]))
    /\ WantsInstitution(current_edu)
    /\ current_edu' = DictSet(current_edu, "institution", lines[i])
    /\ i' = i + 1
    /\ UNCHANGED <<args, pc, lines, in_section, education, ret, notEdu>>

\* Lines 204-206.
EduLocation ==
    /\ EduInside
    /\ ~DegreeMatch(Lower(lines[i]))
    /\ ~WantsInstitution(current_edu)
    /\ WantsLocation(current_edu)
    /\ current_edu' = DictSet(current_edu, "location", lines[i])
    /\ i' = i + 1
    /\ UNCHANGED <<args, pc, lines, in_section, education, ret, notEdu>>

EduUnplaced ==
    /\ EduInside
    /\ ~DegreeMatch(Lower(lines[i]))
    /\ ~WantsInstitution(current_edu)
    /\ ~WantsLocation(current_edu)

\* Lines 209-212.
EduDates ==
    /\ EduUnplaced
    /\ HasDate(lines[i]) /\ ~Has(current_edu, "dates")
    /\ current_edu' = DictSet(current_edu, "dates", DateSearch(lines[i]))
    /\ i' = i + 1
    /\ UNCHANGED <<args, pc, lines, in_section, education, ret, notEdu>>

\* The same with the line put in front.
AddInfoInFront(d, line) ==
    IF ~Has(d, "additional_info")
    THEN DictSet(d, "additional_info", <<line>>)
    ELSE DictSet(d, "additional_info", <<line>> \o d["additional_info"])

\* Lines 215-218: the accumulator with the line added to additional_info.
AddInfo(d, line) ==
    IF ~Has(d, "additional_info")
    THEN DictSet(d, "additional_info", <<line>>)
    ELSE DictSet(d, "additional_info", Append(d["additional_info"], line))

\* Lines 215-218.
EduAdditional ==
    /\ EduUnplaced
    /\ ~(HasDate(lines[i]) /\ ~Has(current_edu, "dates"))
    /\ current_edu' = AddInfo(current_edu, lines[i])
    /\ i' = i + 1
    /\ UNCHANGED <<args, pc, lines, in_section, education, ret, notEdu>>

\* Lines 221-224: the loop is over.
EduReturn ==
    /\ fn = "extract_education" /\ pc = "loop" /\ i > Len(lines)
    /\ education' = IF current_edu # EmptyDict THEN Append(education, current_edu)
                    ELSE education
    /\ ret' = education'
    /\ pc' = "returned"
    /\ UNCHANGED <<args, lines, i, in_section, current_edu, notEdu>>

EduNext ==
    \/ EduFromDoc \/ EduFromStr \/ EduRaise
    \/ EduHeader \/ EduEnd \/ EduOutside
    \/ EduDegree \/ EduInstitution \/ EduLocation \/ EduDates \/ EduAdditional
    \/ EduReturn

SpecEdu == EduInit /\ [][EduNext]_vars

EduReturned == fn = "extract_education" /\ pc = "returned"

RECURSIVE IsSubSeq(_, _)
IsSubSeq(a, b) ==
    IF a = <<>> THEN TRUE
    ELSE IF b = <<>> THEN FALSE
    ELSE IF Head(a) = Head(b) THEN IsSubSeq(Tail(a), Tail(b))
    ELSE IsSubSeq(a, Tail(b))

\* A line that fills a field without starting, entering or leaving anything.
PlainLine(line) == ~IsEduHeader(line) /\ ~IsEduEnd(line) /\ ~DegreeMatch(Lower(line))

\* The lines are a header followed by a section of the field order law's shape.
FieldOrderSection ==
    /\ Len(lines) = 6
    /\ IsEduHeader(lines[1])
    /\ ~IsEduHeader(lines[2]) /\ ~IsEduEnd(lines[2]) /\ DegreeMatch(Lower(lines[2]))
    /\ \A k \in 3..6 : PlainLine(lines[k])
    /\ \A k \in 3..5 : ~HasDate(lines[k])
    /\ HasDate(lines[6])

\* C1: a section made of a degree line, its continuation, an institution line,
\* a location line and a year-range line yields exactly one entry: degree is the
\* degree line joined by a space with the continuation, institution the third
\* line, location the fourth, dates the year range, and no additional_info.
C1_FieldOrderLaw ==
    (EduReturned /\ FieldOrderSection) =>
        ret = <<[degree |-> lines[2] \o " " \o lines[3],
                 institution |-> lines[4],
                 location |-> lines[5],
                 dates |-> DateSearch(lines[6])]>>

\* C9: every emitted education entry has at least one field, and an
\* additional_info field is a non-empty sequence of input lines in input order.
C9_EntriesNonEmpty ==
    fn = "extract_education" =>
        \A k \in 1..Len(education) :
            /\ DOMAIN education[k] # {}
            /\ Has(education[k], "additional_info") =>
                  /\ education[k]["additional_info"] # <<>>
                  /\ IsSubSeq(education[k]["additional_info"], lines)

C9_Witness ==
    /\ EduReturned
    /\ \E k \in 1..Len(ret) :
          /\ Has(ret[k], "additional_info")
          /\ Len(ret[k]["additional_info"]) >= 2
          /\ ret[k]["additional_info"][1] # ret[k]["additional_info"][2]

\* C10: an argument that is neither a document nor a string ends in the error:
\* nothing is returned and no line is processed.
C10_WrongTypeRaises ==
    (fn = "extract_education" /\ input_data.kind \notin {"doc", "str"}) =>
        /\ pc \in {"start", "raised"}
        /\ ret = NoValue
        /\ lines = <<>> /\ i = 1 /\ ~in_section
        /\ current_edu = EmptyDict /\ education = <<>>

C10_Witness ==
    fn = "extract_education" /\ input_data.kind = "list" /\ pc = "raised"

\* The loop is at a line of the section that matches the degree pattern, and
\* the step is that line's.
AtDegreeLine == EduInside /\ DegreeMatch(Lower(lines[i]))

\* The accumulator is emitted as the next entry and a fresh one holds the degree.
FlushedForDegree ==
    /\ education' = Append(education, current_edu)
    /\ DOMAIN current_edu' = {"degree"}

\* Nothing is emitted and the accumulator keeps its fields next to the degree.
KeptForDegree ==
    /\ education' = education
    /\ DOMAIN current_edu' = DOMAIN current_edu \cup {"degree"}
    /\ \A k \in DOMAIN current_edu \ {"degree"} : current_edu'[k] = current_edu[k]

\* C12 as stated: a degree line flushes the accumulator only if it already has
\* a degree; an accumulator with only dates and/or additional_info is kept, so
\* its fields join the new degree in one entry.
C12_FlushOnlyWithDegree ==
    [][(AtDegreeLine /\ i' = i + 1) =>
          IF Has(current_edu, "degree") THEN FlushedForDegree ELSE KeptForDegree]_vars

\* C12, amended: a degree line flushes the accumulator whenever it is not
\* empty, with or without a degree; an accumulator with only dates and/or
\* additional_info is emitted as an entry of its own, and the fresh accumulator
\* holds the new degree alone.
C12_FlushWhenNonEmpty ==
    [][(AtDegreeLine /\ i' = i + 1) =>
          IF current_edu # EmptyDict THEN FlushedForDegree ELSE KeptForDegree]_vars

\* A degree line has just flushed an accumulator that had dates and no degree.
C12_Witness ==
    /\ fn = "extract_education" /\ pc = "loop" /\ in_section
    /\ i > 1 /\ DegreeMatch(Lower(lines[i - 1]))
    /\ \A k \in 1..(i - 1) : ~IsEduEnd(lines[k]) \/ IsEduHeader(lines[k])
    /\ DOMAIN current_edu = {"degree"}
    /\ education # <<>>
    /\ ~Has(education[Len(education)], "degree")
    /\ Has(education[Len(education)], "dates")

\* The accumulator, if it holds anything, becomes the next entry; the machine
\* is outside the section with an empty accumulator.
FlushedAndOutside ==
    /\ ~in_section'
    /\ current_edu' = EmptyDict
    /\ education' = IF current_edu # EmptyDict THEN Append(education, current_edu)
                    ELSE education

\* A line outside the section that is no header changes nothing, and outside
\* the section the accumulator is empty, so that a re-entry starts afresh.
IgnoredUntilHeader ==
    /\ (EduAtLine /\ ~in_section /\ ~IsEduHeader(lines[i]))
            => UNCHANGED <<in_section, current_edu, education>>
    /\ (fn' = "extract_education" /\ ~in_section') => current_edu' = EmptyDict

\* C14 as stated: inside the section every line that contains experience,
\* skills or projects flushes the accumulator (if non-empty) and puts the
\* machine outside the section; the lines after it are ignored until the next
\* header line, and fields filled before the exit and after a re-entry are
\* never in one entry.
C14_EveryExitLineFlushes ==
    [][/\ (EduAtLine /\ in_section /\ IsEduEnd(lines[i])) => FlushedAndOutside
       /\ IgnoredUntilHeader]_vars

\* C14, amended: the same for every such line that contains no education
\* header keyword; a line that contains a header keyword is a header line,
\* also when it contains experience, skills or projects: it flushes nothing
\* and the machine stays inside the section.
C14_ExitLineFlushes ==
    [][/\ (EduAtLine /\ in_section /\ IsEduEnd(lines[i]) /\ ~IsEduHeader(lines[i]))
            => FlushedAndOutside
       /\ (EduAtLine /\ IsEduHeader(lines[i]))
            => (in_section' /\ UNCHANGED <<current_edu, education>>)
       /\ IgnoredUntilHeader]_vars

\* An entry was flushed by an exit line, a line after it was ignored, and the
\* section was entered again and filled a field of a new accumulator.
C14_Witness ==
    /\ fn = "extract_education" /\ pc = "loop" /\ in_section
    /\ Len(education) = 1 /\ current_edu # EmptyDict
    /\ \E e \in 1..(i - 1) :
          /\ IsEduEnd(lines[e]) /\ ~IsEduHeader(lines[e])
          /\ \E h \in (e + 2)..(i - 1) :
                /\ IsEduHeader(lines[h])
                /\ \A k \in (e + 1)..(h - 1) : ~IsEduHeader(lines[k])
                /\ \A k \in (h + 1)..(i - 1) :
                      ~IsEduHeader(lines[k]) /\ ~IsEduEnd(lines[k])
          /\ \A k \in 1..(e - 1) : ~IsEduEnd(lines[k])

\* The positions, from k on, of the lines that lie inside a section: after a
\* header line and before the exit line that closes the section.
RECURSIVE InsideFrom(_, _, _)
InsideFrom(ls, k, inside) ==
    IF k > Len(ls) THEN {}
    ELSE IF IsEduHeader(ls[k]) THEN InsideFrom(ls, k + 1, TRUE)
    ELSE IF inside /\ IsEduEnd(ls[k]) THEN InsideFrom(ls, k + 1, FALSE)
    ELSE (IF inside THEN {k} ELSE {}) \cup InsideFrom(ls, k + 1, inside)

SectionTexts == {lines[k] : k \in InsideFrom(lines, 1, FALSE)}

\* The values a field can take when it is built from lines of a section only.
FromSection(field) ==
    CASE field = "degree" ->
            SectionTexts \cup
            {lines[k] \o " " \o lines[k + 1] :
                k \in {n \in InsideFrom(lines, 1, FALSE) :
                          n + 1 \in InsideFrom(lines, 1, FALSE)}}
      [] field = "dates" -> {DateSearch(t) : t \in SectionTexts}
      [] OTHER -> SectionTexts

BuiltFromSection(entry) ==
    \A f \in DOMAIN entry :
        IF f = "additional_info"
        THEN \A k \in 1..Len(entry[f]) : entry[f][k] \in FromSection(f)
        ELSE entry[f] \in FromSection(f)

\* C19: every field value of every entry is built only from lines inside an
\* education section; the text of an exit line, of a header line or of a line
\* outside the section is in no degree, institution, location, dates or
\* additional_info value.
C19_OnlySectionLines ==
    (fn = "extract_education" /\ pc \in {"loop", "returned"}) =>
        /\ BuiltFromSection(current_edu)
        /\ \A k \in 1..Len(education) : BuiltFromSection(education[k])

\* An institution comes with a degree and a location with an institution.
FieldsNested(entry) ==
    /\ Has(entry, "institution") => Has(entry, "degree")
    /\ Has(entry, "location") => Has(entry, "institution")

\* A field the accumulator holds keeps its value unless the step flushes the
\* accumulator, and an emitted entry stays as it was emitted.
SetOnce ==
    /\ \A f \in DOMAIN current_edu \ {"additional_info"} :
          \/ Has(current_edu', f) /\ current_edu'[f] = current_edu[f]
          \/ education' = Append(education, current_edu)
    /\ Len(education') >= Len(education)
    /\ \A k \in 1..Len(education) : education'[k] = education[k]

\* C20: in every accumulator and every emitted entry, institution is set only
\* if degree is, and location only if institution is; a degree, institution,
\* location or dates once set is not overwritten by a later line before the
\* accumulator is flushed.
C20_NestedAndSetOnce ==
    /\ [](fn = "extract_education" =>
            /\ FieldsNested(current_edu)
            /\ \A k \in 1..Len(education) : FieldsNested(education[k]))
    /\ [][fn = "extract_education" => SetOnce]_vars

\* A second line with a year range came while dates was set and went to
\* additional_info, in an accumulator with a degree and its institution.
C20_Witness ==
    /\ fn = "extract_education" /\ pc = "loop"
    /\ Has(current_edu, "institution")
    /\ Has(current_edu, "dates") /\ Has(current_edu, "additional_info")
    /\ \E k \in 1..Len(current_edu["additional_info"]) :
          HasDate(current_edu["additional_info"][k])

\* ------------------------------------------------------------------ extract_work_experience

\* Number of token positions of the enumerated documents: an entity's end is in
\* 1..MaxTok, a sentence's start in 0..MaxTok-1.
MaxTok == 4

EntLabels == {"ORG", "DATE", "PERSON"}

Digit(n) == Ch(DigitChars, n + 1)

\* The text of the entity with this label that ends at token e.
EntText(label, e) ==
    IF label = "ORG" THEN "Acme " \o Digit(e)
    ELSE IF label = "DATE" THEN "201" \o Digit(e)
    ELSE "Jane Doe " \o Digit(e)

\* The text of the sentence that starts at token t.
SentText(t) == " Engineer " \o Digit(t) \o ".\n"

\* The elements of a set of numbers in increasing order.
RECURSIVE Sorted(_)
Sorted(S) ==
    IF S = {} THEN <<>>
    ELSE LET m == CHOOSE x \in S : \A y \in S : x <= y
         IN  <<m>> \o Sorted(S \ {m})

\* doc.ents: entities in document order, at most MaxLines of them.
EntSeqs ==
    UNION {
        {[k \in 1..Len(Sorted(E)) |->
            [label |-> lab[Sorted(E)[k]],
             text |-> EntText(lab[Sorted(E)[k]], Sorted(E)[k]),
             end |-> Sorted(E)[k]]] : lab \in [E -> EntLabels]}
        : E \in {X \in SUBSET (1..MaxTok) : Cardinality(X) <= MaxLines}}

\* doc.sents: the sentences partition the tokens, the first starts at token 0.
SentSeqs ==
    {[k \in 1..Len(Sorted(S)) |->
        [text |-> SentText(Sorted(S)[k]), start |-> Sorted(S)[k]]]
     : S \in {X \in SUBSET (0..(MaxTok - 1)) : 0 \in X}}

WorkInit ==
    /\ fn = "extract_work_experience"
    /\ input_data \in [ents : EntSeqs, sents : SentSeqs]
    /\ pc = "loop"
    /\ lines = <<>>
    /\ i = 1
    /\ in_section = FALSE
    /\ NoEdu /\ NoSummary /\ NoLists
    /\ current_job = EmptyDict
    /\ experience = <<>>
    /\ ret = NoValue

\* current_job.get(key): falsy when the key is missing or its value is empty.
Truthy(d, k) == Has(d, k) /\ d[k] # ""

\* The same with a later entity replacing a filled field.
FillJobOverwrite(job, ent) ==
    IF ent.label = "ORG" THEN DictSet(job, "company", ent.text)
    ELSE IF ent.label = "DATE" THEN DictSet(job, "dates", ent.text)
    ELSE job

\* Lines 126-129: the accumulator after the entity.
FillJob(job, ent) ==
    IF ent.label = "ORG" /\ ~Truthy(job, "company")
    THEN DictSet(job, "company", ent.text)
    ELSE IF ent.label = "DATE" /\ ~Truthy(job, "dates")
    THEN DictSet(job, "dates", ent.text)
    ELSE job

\* The same with a sentence that starts at the entity's end let through.
StartsAtOrAfter(sent, ent) == sent.start >= ent.end

\* sent.start > ent.end
StartsAfter(sent, ent) == sent.start > ent.end

\* Lines 133-136: the accumulator with the job title of the lookahead.
WithJobTitle(job, sents, ent) ==
    IF \E k \in 1..Len(sents) : StartsAfter(sents[k], ent)
    THEN LET k == CHOOSE n \in 1..Len(sents) :
                    /\ StartsAfter(sents[n], ent)
                    /\ \A m \in 1..(n - 1) : ~StartsAfter(sents[m], ent)
         IN  DictSet(job, "job_title", Strip(sents[k].text))
    ELSE job

WorkAtEntity ==
    /\ fn = "extract_work_experience" /\ pc = "loop"
    /\ i <= Len(input_data.ents)

\* An iteration that leaves the accumulator incomplete: lines 126-131.
WorkPending ==
    /\ WorkAtEntity
    /\ Cardinality(DOMAIN FillJob(current_job, input_data.ents[i])) # 2
    /\ current_job' = FillJob(current_job, input_data.ents[i])
    /\ i' = i + 1
    /\ UNCHANGED <<args, pc, lines, in_section, experience, ret, notWork>>

\* An iteration that completes the accumulator: lines 126-139.
WorkComplete ==
    /\ WorkAtEntity
    /\ Cardinality(DOMAIN FillJob(current_job, input_data.ents[i])) = 2
    /\ experience' = Append(experience,
                            WithJobTitle(FillJob(current_job, input_data.ents[i]),
                                         input_data.sents, input_data.ents[i]))
    /\ current_job' = EmptyDict
    /\ i' = i + 1
    /\ UNCHANGED <<args, pc, lines, in_section, ret, notWork>>

\* The same with the accumulator flushed at the end of the loop.
WorkReturnFlushes ==
    /\ fn = "extract_work_experience" /\ pc = "loop"
    /\ i > Len(input_data.ents)
    /\ experience' = IF current_job # EmptyDict THEN Append(experience, current_job)
                     ELSE experience
    /\ ret' = experience'
    /\ pc' = "returned"
    /\ UNCHANGED <<args, lines, i, in_section, current_job, notWork>>

\* Line 141.
WorkReturn ==
    /\ fn = "extract_work_experience" /\ pc = "loop"
    /\ i > Len(input_data.ents)
    /\ ret' = experience
    /\ pc' = "returned"
    /\ UNCHANGED <<args, lines, i, in_section, workVars, notWork>>

WorkNext == WorkPending \/ WorkComplete \/ WorkReturn

SpecWork == WorkInit /\ [][WorkNext]_vars

WorkFields == {"company", "dates", "job_title"}

\* C2: every entry of the list extract_work_experience builds has company, dates
\* and job_title present and non-empty.
C2_AllThreeFields ==
    fn = "extract_work_experience" =>
        \A k \in 1..Len(experience) :
            \A f \in WorkFields : Has(experience[k], f) /\ experience[k][f] # ""

\* The step emits an entry.
EntryEmitted ==
    fn = "extract_work_experience" /\ Len(experience') = Len(experience) + 1

\* The sentences, by index, that start strictly after token position e.
SentsAfter(e) ==
    {n \in 1..Len(input_data.sents) : input_data.sents[n].start > e}

Min(S) == CHOOSE x \in S : \A y \in S : x <= y

\* C15: when an entity completes the accumulator, job_title is the trimmed text
\* of the first sentence, in document order, that starts strictly after the end
\* of that entity (the one of this iteration, not the one paired earlier); a
\* sentence that starts at the entity's end is not chosen.
C15_TitleAfterTrigger ==
    [][EntryEmitted =>
          LET after == SentsAfter(input_data.ents[i].end)
              entry == experience'[Len(experience')]
          IN  after # {} =>
                /\ Has(entry, "job_title")
                /\ entry["job_title"] = Strip(input_data.sents[Min(after)].text)
                /\ input_data.sents[Min(after)].start # input_data.ents[i].end]_vars

\* The last entity completed an entry; a sentence starts at its end and a later
\* one gave the job title, though both start after the entity paired earlier.
C15_Witness ==
    /\ fn = "extract_work_experience" /\ pc = "loop"
    /\ i = 3 /\ Len(experience) = 1 /\ current_job = EmptyDict
    /\ input_data.ents[1].label # input_data.ents[2].label
    /\ input_data.ents[1].end < input_data.ents[2].end
    /\ Has(experience[1], "job_title")
    /\ \E n \in 1..Len(input_data.sents) :
          /\ input_data.sents[n].start = input_data.ents[2].end
          /\ experience[1]["job_title"] # Strip(input_data.sents[n].text)

WorkReturned == fn = "extract_work_experience" /\ pc = "returned"

\* The index of the first entity with the label at or after position from, 0
\* when there is none.
RECURSIVE FirstWithLabel(_, _, _)
FirstWithLabel(ents, label, from) ==
    IF from > Len(ents) THEN 0
    ELSE IF ents[from].label = label THEN from
    ELSE FirstWithLabel(ents, label, from + 1)

\* The pairs (first ORG, first DATE) taken from position from on, each pair
\* starting after the later entity of the pair before it.
RECURSIVE Pairing(_, _)
Pairing(ents, from) ==
    LET o == FirstWithLabel(ents, "ORG", from)
        d == FirstWithLabel(ents, "DATE", from)
    IN  IF o = 0 \/ d = 0 THEN <<>>
        ELSE <<[company |-> ents[o].text, dates |-> ents[d].text]>>
             \o Pairing(ents, (IF o > d THEN o ELSE d) + 1)

\* C16: the k-th entry's company is the text of the first ORG entity and its
\* dates the text of the first DATE entity after the entity that completed the
\* entry before it (from the start for the first entry), in either order of
\* arrival; ORG and DATE entities that arrive while their field is filled, and
\* entities of other labels, are in no entry.
C16_ArrivalOrderPairing ==
    WorkReturned =>
        LET pairs == Pairing(input_data.ents, 1)
        IN  /\ Len(ret) = Len(pairs)
            /\ \A k \in 1..Len(ret) :
                  /\ Has(ret[k], "company") /\ ret[k]["company"] = pairs[k].company
                  /\ Has(ret[k], "dates") /\ ret[k]["dates"] = pairs[k].dates

\* An ORG entity arrived while the company was filled, before the DATE entity
\* that completed the entry.
C16_Witness ==
    /\ WorkReturned
    /\ Len(ret) = 1
    /\ \E a, b, c \in 1..Len(input_data.ents) :
          /\ a < b /\ b < c
          /\ input_data.ents[a].label = "ORG" /\ input_data.ents[b].label = "ORG"
          /\ input_data.ents[c].label = "DATE"
          /\ ret[1]["company"] = input_data.ents[a].text
          /\ ret[1]["dates"] = input_data.ents[c].text

\* The number of entities of the input with the label.
CountLabel(label) ==
    Cardinality({k \in 1..Len(input_data.ents) : input_data.ents[k].label = label})

\* The text of the accumulator's fields is in no entry of the result.
Discarded(job, entries) ==
    \A f \in DOMAIN job : \A k \in 1..Len(entries) :
        \A g \in DOMAIN entries[k] : entries[k][g] # job[f]

\* C17: an accumulator with only a company or only dates when the entities
\* end is discarded; every emitted entry has both company and dates, and there
\* are at most as many entries as ORG entities and as DATE entities.
C17_PartialDiscarded ==
    fn = "extract_work_experience" =>
        /\ \A k \in 1..Len(experience) :
              Has(experience[k], "company") /\ Has(experience[k], "dates")
        /\ Len(experience) <= CountLabel("ORG")
        /\ Len(experience) <= CountLabel("DATE")
        /\ pc = "returned" =>
              /\ ret = experience
              /\ Cardinality(DOMAIN current_job) <= 1
              /\ Discarded(current_job, ret)

\* The entities ended with a company waiting for its dates, after one entry.
C17_Witness ==
    /\ WorkReturned
    /\ Len(ret) = 1
    /\ DOMAIN current_job = {"company"}
    /\ CountLabel("ORG") = 2 /\ CountLabel("DATE") = 1

\* ------------------------------------------------------------------ extract_section

SectionFns == {"extract_section", "extract_projects", "extract_publications_and_conferences"}

\* The same without "projects".
PublicationsStopsNoProjects ==
    <<"education", "work experience", "skills", "certifications", "awards",
      "interests">>

\* Line 288.
PublicationsStops ==
    <<"projects", "education", "work experience", "skills", "certifications",
      "awards", "interests">>
\* Line 293.
ProjectsStops ==
    <<"publications", "education", "work experience", "skills", "certifications",
      "awards", "interests">>

SectRawLines ==
    {" PROJECTS: ", "Publications & Conferences", " Resume parser ", "", "Skills",
     "Projects, Skills"}

SectTexts == {Join("\n", q) : q \in SeqsUpTo(SectRawLines, MaxLines)}

\* The arguments extract_section is called with, by its two callers and directly.
SectCalls ==
    {[fn |-> "extract_projects", section_header |-> "projects",
      stop_headers |-> ProjectsStops],
     [fn |-> "extract_publications_and_conferences",
      section_header |-> "publications & conferences",
      stop_headers |-> PublicationsStops],
     [fn |-> "extract_section", section_header |-> "Projects",
      stop_headers |-> <<"Parser", "projects:">>]}

SectInit ==
    /\ \E c \in SectCalls, t \in SectTexts :
          /\ fn = c.fn
          /\ input_data = [text |-> t, section_header |-> c.section_header,
                           stop_headers |-> c.stop_headers]
    /\ pc = "start"
    /\ lines = <<>>
    /\ i = 1
    /\ in_section = FALSE
    /\ NoEdu /\ NoWork /\ NoSummary
    /\ section_content = <<>> /\ awards_and_certs = <<>> /\ skills = <<>>
    /\ ret = NoValue

\* section_header.lower() in clean_line.lower()
IsSectionHeader(clean_line, section_header) ==
    Contains(Lower(section_header), Lower(clean_line))

\* The same without the lowercasing.
IsStopHeaderExact(clean_line, stop_headers) ==
    \E k \in 1..Len(stop_headers) : Contains(stop_headers[k], clean_line)

\* any(stop_header.lower() in clean_line.lower() for stop_header in stop_headers)
IsStopHeader(clean_line, stop_headers) ==
    \E k \in 1..Len(stop_headers) :
        Contains(Lower(stop_headers[k]), Lower(clean_line))

\* Line 263.
SectStart ==
    /\ fn \in SectionFns /\ pc = "start"
    /\ lines' = Split(input_data.text, "\n")
    /\ pc' = "loop"
    /\ UNCHANGED <<args, i, in_section, listVars, ret, eduVars, workVars, summaryVars>>

SectAtLine == fn \in SectionFns /\ pc = "loop" /\ i <= Len(lines)

\* Lines 271-273.
SectHeader ==
    /\ SectAtLine
    /\ IsSectionHeader(Strip(lines[i]), input_data.section_header)
    /\ in_section' = TRUE
    /\ i' = i + 1
    /\ UNCHANGED <<args, pc, lines, onlyCommon, ret>>

\* The same leaving the section instead of the loop.
SectStopSkips ==
    /\ SectAtLine
    /\ ~IsSectionHeader(Strip(lines[i]), input_data.section_header)
    /\ in_section /\ IsStopHeader(Strip(lines[i]), input_data.stop_headers)
    /\ in_section' = FALSE
    /\ i' = i + 1
    /\ UNCHANGED <<args, pc, lines, onlyCommon, ret>>

\* Lines 276-277: break.
SectStop ==
    /\ SectAtLine
    /\ ~IsSectionHeader(Strip(lines[i]), input_data.section_header)
    /\ in_section /\ IsStopHeader(Strip(lines[i]), input_data.stop_headers)
    /\ pc' = "done"
    /\ UNCHANGED <<args, lines, i, in_section, onlyCommon, ret>>

\* Lines 280-281.
SectGather ==
    /\ SectAtLine
    /\ ~IsSectionHeader(Strip(lines[i]), input_data.section_header)
    /\ in_section /\ ~IsStopHeader(Strip(lines[i]), input_data.stop_headers)
    /\ section_content' = Append(section_content, Strip(lines[i]))
    /\ i' = i + 1
    /\ UNCHANGED <<args, pc, lines, in_section, eduVars, workVars, summaryVars,
                   awards_and_certs, skills, ret>>

\* A line before the section.
SectOutside ==
    /\ SectAtLine
    /\ ~IsSectionHeader(Strip(lines[i]), input_data.section_header)
    /\ ~in_section
    /\ i' = i + 1
    /\ UNCHANGED <<args, pc, lines, in_section, onlyCommon, ret>>

\* The loop is exhausted.
SectEnd ==
    /\ fn \in SectionFns /\ pc = "loop" /\ i > Len(lines)
    /\ pc' = "done"
    /\ UNCHANGED <<args, lines, i, in_section, onlyCommon, ret>>

\* Line 284.
SectReturn ==
    /\ fn \in SectionFns /\ pc = "done"
    /\ ret' = SelectSeq(section_content, LAMBDA line : line # "")
    /\ pc' = "returned"
    /\ UNCHANGED <<args, lines, i, in_section, onlyCommon>>

SectNext ==
    \/ SectStart \/ SectHeader \/ SectStop \/ SectGather \/ SectOutside
    \/ SectEnd \/ SectReturn

SpecSection == SectInit /\ [][SectNext]_vars

SectReturned == fn \in SectionFns /\ pc = "returned"

HeaderIn(line) == Contains(Lower(input_data.section_header), Lower(line))
StopIn(line) ==
    \E k \in 1..Len(input_data.stop_headers) :
        Contains(Lower(input_data.stop_headers[k]), Lower(line))

\* C3: no line extract_section returns contains the header keyword or a stop
\* keyword (ignoring case), and without a header line the result is empty.
C3_BoundaryLaw ==
    SectReturned =>
        /\ \A k \in 1..Len(ret) : ~HeaderIn(ret[k]) /\ ~StopIn(ret[k])
        /\ (\A k \in 1..Len(lines) : ~HeaderIn(lines[k])) => ret = <<>>

C3_Witness ==
    /\ SectReturned
    /\ ret # <<>>
    /\ i <= Len(lines) /\ StopIn(lines[i])
    /\ \E k \in 1..Len(lines) : HeaderIn(lines[k]) /\ StopIn(lines[k])

\* The scan ends at line i: nothing is gathered, and what is returned comes
\* from the lines before it.
ScanEndsHere ==
    /\ pc' = "done"
    /\ i' = i
    /\ section_content' = section_content

\* The result is made of lines before the one the scan ended at.
ReturnsEarlierLines ==
    (fn \in SectionFns /\ pc = "done") =>
        /\ pc' = "returned"
        /\ IsSubSeq(ret', StripAll(SubSeq(lines, 1, i - 1)))

\* C13 as stated: inside the section every line that contains a stop keyword
\* ends the scan at once, also when that same line contains the header
\* keyword; neither it nor any later line is emitted.
C13_StopAlwaysTerminates ==
    [][/\ (SectAtLine /\ in_section /\ StopIn(lines[i])) => ScanEndsHere
       /\ ReturnsEarlierLines]_vars

\* C13, amended: inside the section every line that contains a stop keyword
\* and not the header keyword ends the scan at once, and neither it nor any
\* later line is emitted, even when a later line contains the header keyword;
\* a line that contains the header keyword is discarded as a header and the
\* scan goes on, also when it contains a stop keyword.
C13_StopTerminates ==
    [][/\ (SectAtLine /\ in_section /\ StopIn(lines[i]) /\ ~HeaderIn(lines[i]))
            => ScanEndsHere
       /\ (SectAtLine /\ HeaderIn(lines[i]))
            => (pc' = "loop" /\ i' = i + 1 /\ in_section'
                /\ section_content' = section_content)
       /\ ReturnsEarlierLines]_vars

\* The scan stopped with something gathered and a header line still ahead.
C13_Witness ==
    /\ SectReturned
    /\ ret # <<>>
    /\ i <= Len(lines) /\ StopIn(lines[i]) /\ ~HeaderIn(lines[i])
    /\ \E k \in (i + 1)..Len(lines) : HeaderIn(lines[k])

\* The projects stop set without "publications".
SixStopsSeq ==
    <<"education", "work experience", "skills", "certifications", "awards",
      "interests">>

\* The loop of the publications & conferences scan is at a non-empty line
\* inside the section that is no header line.
AtPublicationsLine ==
    /\ fn = "extract_publications_and_conferences"
    /\ SectAtLine /\ in_section
    /\ Strip(lines[i]) # ""
    /\ ~Contains("publications & conferences", Lower(lines[i]))

\* The line is gathered and the scan goes on.
GatheredHere ==
    /\ pc' = "loop" /\ i' = i + 1
    /\ section_content' = Append(section_content, Strip(lines[i]))

\* The non-empty lines gathered are what is returned.
ReturnsGathered ==
    (fn = "extract_publications_and_conferences" /\ pc = "done") =>
        ret' = SelectSeq(section_content, LAMBDA line : line # "")

\* C18 as stated: publications & conferences is scanned with the stop set
\* education, work experience, skills, certifications, awards, interests; a
\* line inside the section with none of these six does not stop the scan and
\* is emitted.
C18_SixStopsOnly ==
    [][/\ (AtPublicationsLine /\ ~ContainsAny(SixStopsSeq, Lower(lines[i])))
            => GatheredHere
       /\ ReturnsGathered]_vars

\* C18, amended: publications & conferences is scanned with the projects stop
\* set in which "projects" takes the place of "publications" (seven keywords);
\* a line inside the section with none of the seven does not stop the scan and
\* is emitted, and a line with "projects" stops it like the other six.
C18_SevenStops ==
    [][/\ (AtPublicationsLine /\ ~ContainsAny(SixStopsSeq, Lower(lines[i]))
                              /\ ~Contains("projects", Lower(lines[i])))
            => GatheredHere
       /\ (AtPublicationsLine /\ (\/ ContainsAny(SixStopsSeq, Lower(lines[i]))
                                  \/ Contains("projects", Lower(lines[i]))))
            => ScanEndsHere
       /\ ReturnsGathered]_vars

\* The scan of publications & conferences gathered a line and stopped at a
\* line with "projects" and none of the six.
C18_Witness ==
    /\ fn = "extract_publications_and_conferences" /\ pc = "returned"
    /\ ret # <<>>
    /\ i <= Len(lines)
    /\ Contains("projects", Lower(lines[i]))
    /\ ~ContainsAny(SixStopsSeq, Lower(lines[i]))

\* ------------------------------------------------------------------ extract_summary

\* Line 76.
SummaryKeywords == <<"summary", "objective", "profile", "about me">>

\* The texts of the sentences of the enumerated documents.
SummarySentences ==
    {"Profile: driven engineer.", " Loves Python.\n",
     "Experience: five years in industry.", "Objective: gain experience.",
     "ABOUT ME\n"}

SummaryInit ==
    /\ fn = "extract_summary"
    /\ input_data \in [sents : SeqsUpTo(SummarySentences, MaxLines)]
    /\ pc = "loop"
    /\ lines = <<>>
    /\ i = 1
    /\ in_section = FALSE
    /\ NoEdu /\ NoWork /\ NoLists
    /\ in_summary = FALSE
    /\ summary = <<>>
    /\ ret = NoValue

\* clean_sent = sent.text.strip().lower()
CleanSent(text) == Lower(Strip(text))

\* The same with the "experience" test taking precedence.
IsSummaryTriggerOnly(clean_sent) ==
    ContainsAny(SummaryKeywords, clean_sent) /\ ~Contains("experience", clean_sent)

\* any(keyword in clean_sent for keyword in summary_keywords)
IsSummaryTrigger(clean_sent) == ContainsAny(SummaryKeywords, clean_sent)

\* "experience" in clean_sent
IsSummaryStop(clean_sent) == Contains("experience", clean_sent)

SummaryAtSent == fn = "extract_summary" /\ pc = "loop" /\ i <= Len(input_data.sents)

\* Lines 86-89.
SummaryTrigger ==
    /\ SummaryAtSent
    /\ IsSummaryTrigger(CleanSent(input_data.sents[i]))
    /\ in_summary' = TRUE
    /\ summary' = Append(summary, Strip(input_data.sents[i]))
    /\ i' = i + 1
    /\ UNCHANGED <<args, pc, lines, in_section, ret, notSummary>>

\* Lines 92-94: break.
SummaryStop ==
    /\ SummaryAtSent
    /\ ~IsSummaryTrigger(CleanSent(input_data.sents[i]))
    /\ in_summary /\ IsSummaryStop(CleanSent(input_data.sents[i]))
    /\ pc' = "done"
    /\ UNCHANGED <<args, lines, i, in_section, ret, onlyCommon>>

\* Lines 95-96.
SummaryAppend ==
    /\ SummaryAtSent
    /\ ~IsSummaryTrigger(CleanSent(input_data.sents[i]))
    /\ in_summary /\ ~IsSummaryStop(CleanSent(input_data.sents[i]))
    /\ summary' = Append(summary, Strip(input_data.sents[i]))
    /\ i' = i + 1
    /\ UNCHANGED <<args, pc, lines, in_section, in_summary, ret, notSummary>>

\* A sentence before the summary.
SummaryOutside ==
    /\ SummaryAtSent
    /\ ~IsSummaryTrigger(CleanSent(input_data.sents[i]))
    /\ ~in_summary
    /\ i' = i + 1
    /\ UNCHANGED <<args, pc, lines, in_section, ret, onlyCommon>>

\* The loop is exhausted.
SummaryEnd ==
    /\ fn = "extract_summary" /\ pc = "loop" /\ i > Len(input_data.sents)
    /\ pc' = "done"
    /\ UNCHANGED <<args, lines, i, in_section, ret, onlyCommon>>

\* Line 99.
SummaryReturn ==
    /\ fn = "extract_summary" /\ pc = "done"
    /\ ret' = Strip(Join(" ", summary))
    /\ pc' = "returned"
    /\ UNCHANGED <<args, lines, i, in_section, onlyCommon>>

SummaryNext ==
    \/ SummaryTrigger \/ SummaryStop \/ SummaryAppend \/ SummaryOutside
    \/ SummaryEnd \/ SummaryReturn

SpecSummary == SummaryInit /\ [][SummaryNext]_vars

SummaryReturned == fn = "extract_summary" /\ pc = "returned"

HasTrigger(text) ==
    \E w \in {"summary", "objective", "profile", "about me"} :
        Contains(w, Lower(Strip(text)))
IsTerminator(text) == Contains("experience", Lower(Strip(text))) /\ ~HasTrigger(text)

\* Position of the first sentence with a trigger keyword, 0 when there is none.
FirstTrigger(sents) ==
    IF \E k \in 1..Len(sents) : HasTrigger(sents[k])
    THEN CHOOSE k \in 1..Len(sents) :
            HasTrigger(sents[k]) /\ \A m \in 1..(k - 1) : ~HasTrigger(sents[m])
    ELSE 0

\* Position of the first terminator after position f, Len + 1 when there is none.
FirstTerminatorAfter(sents, f) ==
    IF \E k \in (f + 1)..Len(sents) : IsTerminator(sents[k])
    THEN CHOOSE k \in (f + 1)..Len(sents) :
            IsTerminator(sents[k]) /\ \A m \in (f + 1)..(k - 1) : ~IsTerminator(sents[m])
    ELSE Len(sents) + 1

ExpectedSummary(sents) ==
    LET f == FirstTrigger(sents)
        t == FirstTerminatorAfter(sents, f)
    IN  IF f = 0 THEN ""
        ELSE Join(" ", [k \in 1..(t - f) |-> Strip(sents[f + k - 1])])

\* C4: extract_summary returns the space-joined trimmed texts of the first
\* sentence with a trigger keyword and of every following sentence before the
\* first later sentence that contains "experience" and no trigger keyword;
\* that sentence and all after it are left out.
C4_SummarySpan == SummaryReturned => ret = ExpectedSummary(input_data.sents)

C4_Witness ==
    /\ SummaryReturned
    /\ LET sents == input_data.sents
           f == FirstTrigger(sents)
           t == FirstTerminatorAfter(sents, f)
       IN  /\ f > 0 /\ t <= Len(sents)
           /\ \E k \in (f + 1)..(t - 1) : Contains("experience", Lower(sents[k]))
           /\ \E k \in (t + 1)..Len(sents) : HasTrigger(sents[k])

\* ------------------------------------------------------------------ extract_skills

\* The annotated documents: tokens with their stop-word flag, and noun chunks.
SkillDocs ==
    {[tokens |-> <<[text |-> "Python", is_stop |-> FALSE],
                   [text |-> "and", is_stop |-> TRUE],
                   [text |-> "SQL", is_stop |-> FALSE],
                   [text |-> "machine", is_stop |-> FALSE],
                   [text |-> "learning", is_stop |-> FALSE]>>,
      noun_chunks |-> <<"Python", "SQL", "machine learning">>],
     [tokens |-> <<[text |-> "Go", is_stop |-> TRUE],
                   [text |-> "python", is_stop |-> FALSE]>>,
      noun_chunks |-> <<>>],
     [tokens |-> <<>>, noun_chunks |-> <<>>]}

\* The terms a vocabulary is made of.
SkillTerms == {"python", "Python", "machine learning", "SQL", "go"}

SkillsInit ==
    /\ fn = "extract_skills"
    /\ input_data \in [doc : SkillDocs, skill_list : SeqsUpTo(SkillTerms, MaxLines)]
    /\ pc = "loop"
    /\ lines = <<>>
    /\ i = 1
    /\ in_section = FALSE
    /\ NoEdu /\ NoWork /\ NoSummary
    /\ section_content = <<>> /\ awards_and_certs = <<>> /\ skills = <<>>
    /\ ret = NoValue

\* Line 104: [token.text.lower() for token in doc if not token.is_stop]
TokenTexts(doc) ==
    {Lower(doc.tokens[k].text) : k \in {n \in 1..Len(doc.tokens) : ~doc.tokens[n].is_stop}}

\* Line 105: [chunk.text.lower() for chunk in doc.noun_chunks]
ChunkTexts(doc) == {Lower(doc.noun_chunks[k]) : k \in 1..Len(doc.noun_chunks)}

\* The term kept as the vocabulary spells it.
AsWritten(s) == s

\* str.capitalize()
Capitalize(s) == IF s = "" THEN "" ELSE UpperCh(Head(s)) \o Lower(Tail(s))

\* Line 109.
SkillFound(skill, doc) ==
    Lower(skill) \in TokenTexts(doc) \/ Lower(skill) \in ChunkTexts(doc)

SkillsAtTerm == fn = "extract_skills" /\ pc = "loop" /\ i <= Len(input_data.skill_list)

\* Lines 109-110.
SkillsKeep ==
    /\ SkillsAtTerm
    /\ SkillFound(input_data.skill_list[i], input_data.doc)
    /\ skills' = Append(skills, Capitalize(input_data.skill_list[i]))
    /\ i' = i + 1
    /\ UNCHANGED <<args, pc, lines, in_section, eduVars, workVars, summaryVars,
                   section_content, awards_and_certs, ret>>

\* A term the document does not have.
SkillsDrop ==
    /\ SkillsAtTerm
    /\ ~SkillFound(input_data.skill_list[i], input_data.doc)
    /\ i' = i + 1
    /\ UNCHANGED <<args, pc, lines, in_section, onlyCommon, ret>>

Range(q) == {q[k] : k \in 1..Len(q)}

\* The sequences that list each element of S once.
Orderings(S) == {q \in [1..Cardinality(S) -> S] : Range(q) = S}

\* Line 112: list(set(skills)), in whatever order the set iterates.
SkillsReturn ==
    /\ fn = "extract_skills" /\ pc = "loop" /\ i > Len(input_data.skill_list)
    /\ ret' \in Orderings(Range(skills))
    /\ pc' = "returned"
    /\ UNCHANGED <<args, lines, i, in_section, onlyCommon>>

SkillsNext == SkillsKeep \/ SkillsDrop \/ SkillsReturn

SpecSkills == SkillsInit /\ [][SkillsNext]_vars

SkillsReturned == fn = "extract_skills" /\ pc = "returned"

\* C5: no two entries of what extract_skills returns are equal ignoring case.
C5_SkillsDedup ==
    SkillsReturned =>
        \A a, b \in 1..Len(ret) : a # b => Lower(ret[a]) # Lower(ret[b])

C5_Witness ==
    /\ SkillsReturned
    /\ Len(ret) >= 2
    /\ \E a, b \in 1..Len(input_data.skill_list) :
          /\ input_data.skill_list[a] # input_data.skill_list[b]
          /\ Lower(input_data.skill_list[a]) = Lower(input_data.skill_list[b])
          /\ SkillFound(input_data.skill_list[a], input_data.doc)

\* ------------------------------------------------------------------ extract_full_name

\* Last position of the run of non-space characters that holds position p.
RECURSIVE RunEnd(_, _)
RunEnd(s, p) ==
    IF p + 1 <= Len(s) /\ ~IsSpaceCh(Ch(s, p + 1)) THEN RunEnd(s, p + 1) ELSE p

\* The text left as it is.
KeepEmails(s, p) == SubSeq(s, p, Len(s))

\* re.sub(r'\S+@\S+', '', s) from position p on: a match starts at the leftmost
\* non-space position that has an "@" after it and before the end of its run,
\* and runs to the end of that run.
RECURSIVE ReSubEmail(_, _)
ReSubEmail(s, p) ==
    IF p > Len(s) THEN ""
    ELSE IF IsSpaceCh(Ch(s, p)) THEN Ch(s, p) \o ReSubEmail(s, p + 1)
    ELSE IF \E q \in (p + 1)..(RunEnd(s, p) - 1) : Ch(s, q) = "@"
    THEN ReSubEmail(s, RunEnd(s, p) + 1)
    ELSE Ch(s, p) \o ReSubEmail(s, p + 1)

\* str.split(): the runs of non-space characters from position p on.
RECURSIVE SplitSpace(_, _)
SplitSpace(s, p) ==
    IF p > Len(s) THEN <<>>
    ELSE IF IsSpaceCh(Ch(s, p)) THEN SplitSpace(s, p + 1)
    ELSE <<SubSeq(s, p, RunEnd(s, p))>> \o SplitSpace(s, RunEnd(s, p) + 1)

\* Lines 26-28.
CleanName(text) == Join(" ", SplitSpace(ReSubEmail(text, 1), 1))

\* The entities of the enumerated documents.
NameEntities ==
    {[label |-> "PERSON", text |-> "Jane  Doe"],
     [label |-> "PERSON", text |-> "John Smith john@x.io\n"],
     [label |-> "PERSON", text |-> "a@b.c"],
     [label |-> "PERSON", text |-> "Ann @ann"],
     [label |-> "ORG", text |-> "Acme"]}

NameInit ==
    /\ fn = "extract_full_name"
    /\ input_data \in [ents : SeqsUpTo(NameEntities, MaxLines)]
    /\ pc = "loop"
    /\ lines = <<>>
    /\ i = 1
    /\ in_section = FALSE
    /\ NoEdu /\ NoWork /\ NoSummary /\ NoLists
    /\ ret = NoValue

NameAtEntity == fn = "extract_full_name" /\ pc = "loop" /\ i <= Len(input_data.ents)

\* An entity that is not a PERSON: line 24.
NameSkip ==
    /\ NameAtEntity
    /\ input_data.ents[i].label # "PERSON"
    /\ i' = i + 1
    /\ UNCHANGED <<args, pc, lines, in_section, onlyCommon, ret>>

\* Lines 24-28.
NameFound ==
    /\ NameAtEntity
    /\ input_data.ents[i].label = "PERSON"
    /\ ret' = CleanName(input_data.ents[i].text)
    /\ pc' = "returned"
    /\ UNCHANGED <<args, lines, i, in_section, onlyCommon>>

\* Line 29.
NameUnknown ==
    /\ fn = "extract_full_name" /\ pc = "loop" /\ i > Len(input_data.ents)
    /\ ret' = "Unknown"
    /\ pc' = "returned"
    /\ UNCHANGED <<args, lines, i, in_section, onlyCommon>>

NameNext == NameSkip \/ NameFound \/ NameUnknown

SpecName == NameInit /\ [][NameNext]_vars

NameReturned == fn = "extract_full_name" /\ pc = "returned"

\* A word with an "@" that has a character on both sides.
EmailShaped(word) == \E q \in 2..(Len(word) - 1) : Ch(word, q) = "@"

\* The words of the text that are not email-shaped, joined by single spaces.
NameOf(text) ==
    Join(" ", SelectSeq(SplitSpace(text, 1), LAMBDA word : ~EmailShaped(word)))

Persons(ents) == {k \in 1..Len(ents) : ents[k].label = "PERSON"}

\* C6: extract_full_name returns "Unknown" when no entity is a PERSON, and
\* otherwise the text of the first PERSON entity without its email-shaped
\* words and with whitespace collapsed, whatever PERSON entities follow.
C6_FirstPerson ==
    NameReturned =>
        LET P == Persons(input_data.ents)
        IN  IF P = {} THEN ret = "Unknown"
            ELSE ret = NameOf(input_data.ents[CHOOSE k \in P : \A m \in P : k <= m].text)

C6_Witness ==
    /\ NameReturned
    /\ Cardinality(Persons(input_data.ents)) >= 2
    /\ \E k \in Persons(input_data.ents) : CleanName(input_data.ents[k].text) # ret
    /\ ret = "John Smith"

\* ------------------------------------------------------------------ extract_contact_info

AlnumSet == UpperSet \cup LowerSet \cup DigitSet
WordSet == AlnumSet \cup {"_"}                     \* \w
HandleSet == WordSet \cup {"-"}                    \* [\w-]
DotHandleSet == WordSet \cup {".", "-"}            \* [\w.-]
LocalSet == AlnumSet \cup {".", "_", "%", "+", "-"}  \* [A-Za-z0-9._%+-]
DomainSet == AlnumSet \cup {".", "-"}              \* [A-Za-z0-9.-]
TldSet == UpperSet \cup LowerSet \cup {"|"}         \* [A-Z|a-z]
SepSet == {"-", "."} \cup SpaceSet                 \* [-.\s]

\* Last position of the longest run of characters of C that starts at p,
\* p - 1 when the character at p is not in C.
RECURSIVE RunOf(_, _, _)
RunOf(s, p, C) == IF p <= Len(s) /\ Ch(s, p) \in C THEN RunOf(s, p + 1, C) ELSE p - 1

IsWordAt(s, p) == p >= 1 /\ p <= Len(s) /\ Ch(s, p) \in WordSet

\* \b just before position p
Boundary(s, p) == IsWordAt(s, p - 1) # IsWordAt(s, p)

\* The literal at position p.
LiteralAt(s, p, literal, ignore_case) ==
    /\ p + Len(literal) - 1 <= Len(s)
    /\ IF ignore_case
       THEN Lower(SubSeq(s, p, p + Len(literal) - 1)) = Lower(literal)
       ELSE SubSeq(s, p, p + Len(literal) - 1) = literal

Max(S) == CHOOSE x \in S : \A y \in S : y <= x

\* \.[A-Z|a-z]{2,}\b with the dot at position d: the end of the longest match, 0
\* when there is none.
TldEnd(s, d) ==
    LET ends == {e \in (d + 2)..RunOf(s, d + 1, TldSet) : Boundary(s, e + 1)}
    IN  IF d <= Len(s) /\ Ch(s, d) = "." /\ ends # {} THEN Max(ends) ELSE 0

\* \b[A-Za-z0-9._%+-]+@[A-Za-z0-9.-]+\.[A-Z|a-z]{2,}\b at position p: the end of
\* the match, 0 when there is none.
EmailEndAt(s, p) ==
    LET at == RunOf(s, p, LocalSet) + 1
        dots == {d \in (at + 2)..RunOf(s, at + 1, DomainSet) : TldEnd(s, d) > 0}
    IN  IF /\ Boundary(s, p)
           /\ at > p /\ at <= Len(s) /\ Ch(s, at) = "@"
           /\ dots # {}
        THEN TldEnd(s, Max(dots))
        ELSE 0

ThreeDigits(s, p) == p + 2 <= Len(s) /\ \A q \in p..(p + 2) : IsDigitCh(Ch(s, q))

\* The position after an optional character of C at p.
Optional(s, p, C) == IF p <= Len(s) /\ Ch(s, p) \in C THEN p + 1 ELSE p

\* \(?\d{3}\)?[-.\s]?\d{3}[-.\s]?\d{4} at position p.
PhoneEndAt(s, p) ==
    LET area == Optional(s, p, {"("})
        mid == Optional(s, Optional(s, area + 3, {")"}), SepSet)
        last == Optional(s, mid + 3, SepSet)
    IN  IF ThreeDigits(s, area) /\ ThreeDigits(s, mid) /\ FourDigits(s, last)
        THEN last + 3
        ELSE 0

\* A literal followed by a run of at least one character of C, at position p.
MarkerEndAt(s, p, literal, ignore_case, C) ==
    IF /\ LiteralAt(s, p, literal, ignore_case)
       /\ RunOf(s, p + Len(literal), C) >= p + Len(literal)
    THEN RunOf(s, p + Len(literal), C)
    ELSE 0

\* linkedin\.com/in/[\w-]+
LinkedinEndAt(s, p) == MarkerEndAt(s, p, "linkedin.com/in/", FALSE, HandleSet)

\* medium\.com/@[\w.-]+ (re.IGNORECASE)
MediumEndAt(s, p) == MarkerEndAt(s, p, "medium.com/@", TRUE, DotHandleSet)

\* (?:github\.com/|github: )[\w-]+ (re.IGNORECASE)
GithubEndAt(s, p) ==
    IF MarkerEndAt(s, p, "github.com/", TRUE, HandleSet) > 0
    THEN MarkerEndAt(s, p, "github.com/", TRUE, HandleSet)
    ELSE MarkerEndAt(s, p, "github: ", TRUE, HandleSet)

\* The end of the channel's pattern matched at position p, 0 for no match.
EndAt(channel, s, p) ==
    CASE channel = "email" -> EmailEndAt(s, p)
      [] channel = "phone" -> PhoneEndAt(s, p)
      [] channel = "linkedin" -> LinkedinEndAt(s, p)
      [] channel = "medium" -> MediumEndAt(s, p)
      [] channel = "github" -> GithubEndAt(s, p)

\* re.search(...).group(): the match that starts leftmost at or after p, ""
\* when the pattern matches nowhere (a match is never empty).
RECURSIVE Search(_, _, _)
Search(channel, s, p) ==
    IF p > Len(s) THEN ""
    ELSE IF EndAt(channel, s, p) > 0 THEN SubSeq(s, p, EndAt(channel, s, p))
    ELSE Search(channel, s, p + 1)

\* The same without the split.
GithubWhole(match) == Strip(match)

\* Line 59: github_match.group().split('/')[-1].strip()
GithubValue(match) == Strip(Split(match, "/")[Len(Split(match, "/"))])

\* Lines 34-61.
ContactInfo(text) ==
    LET email == Search("email", text, 1)
        phone == Search("phone", text, 1)
        linkedin == Search("linkedin", text, 1)
        medium == Search("medium", text, 1)
        github == Search("github", text, 1)
        c1 == IF email # "" THEN DictSet(EmptyDict, "email", email) ELSE EmptyDict
        c2 == IF phone # "" THEN DictSet(c1, "phone", phone) ELSE c1
        c3 == IF linkedin # "" THEN DictSet(c2, "linkedin", linkedin) ELSE c2
        c4 == IF medium # "" THEN DictSet(c3, "medium", medium) ELSE c3
    IN  IF github # "" THEN DictSet(c4, "github", GithubValue(github)) ELSE c4

\* Most pieces an enumerated text is made of.
MaxParts == 3

\* The pieces the enumerated texts are made of, joined by single spaces.
ContactParts ==
    {"jane.doe@example.com", "bob@x.org or", "(415) 555-1234,",
     "linkedin.com/in/janedoe", "Medium.com/@jd.w", "GitHub: jd", "github.com/jd-x"}

\* The text of the contact extraction scenario.
ContactExample ==
    <<"Reach me at", "jane.doe@example.com", "or", "(415) 555-1234,",
      "linkedin.com/in/janedoe">>

ContactInit ==
    /\ fn = "extract_contact_info"
    /\ \E parts \in SeqsUpTo(ContactParts, MaxParts) \cup {ContactExample} :
          input_data = [text |-> Join(" ", parts), parts |-> parts]
    /\ pc = "start"
    /\ lines = <<>>
    /\ i = 1
    /\ in_section = FALSE
    /\ NoEdu /\ NoWork /\ NoSummary /\ NoLists
    /\ ret = NoValue

\* Lines 34-61.
ContactReturn ==
    /\ fn = "extract_contact_info" /\ pc = "start"
    /\ ret' = ContactInfo(input_data.text)
    /\ pc' = "returned"
    /\ UNCHANGED <<args, lines, i, in_section, onlyCommon>>

ContactNext == ContactReturn

SpecContact == ContactInit /\ [][ContactNext]_vars

ContactReturned == fn = "extract_contact_info" /\ pc = "returned"

Channels == {"email", "phone", "linkedin", "medium", "github"}

\* What each channel's pattern is to find in a piece of text: the piece's
\* channel and the value the channel gets from it.
Carries ==
    [p \in ContactParts \cup Range(ContactExample) |->
        CASE p = "jane.doe@example.com" -> [channel |-> "email", value |-> p]
          [] p = "bob@x.org or" -> [channel |-> "email", value |-> "bob@x.org"]
          [] p = "(415) 555-1234," -> [channel |-> "phone", value |-> "(415) 555-1234"]
          [] p = "linkedin.com/in/janedoe" -> [channel |-> "linkedin", value |-> p]
          [] p = "Medium.com/@jd.w" -> [channel |-> "medium", value |-> p]
          [] p = "GitHub: jd" -> [channel |-> "github", value |-> p]
          [] p = "github.com/jd-x" -> [channel |-> "github", value |-> "jd-x"]
          [] OTHER -> [channel |-> "none", value |-> ""]]

PartsOf(channel, parts) == {k \in 1..Len(parts) : Carries[parts[k]].channel = channel}

\* C7: extract_contact_info has a key for a channel exactly when the channel's
\* pattern matches in the text, its value comes from the first match in text
\* order and is never empty; the scenario text yields exactly email, phone and
\* linkedin.
C7_ContactKeys ==
    ContactReturned =>
        /\ \A c \in Channels :
              LET P == PartsOf(c, input_data.parts)
              IN  /\ Has(ret, c) <=> P # {}
                  /\ Has(ret, c) =>
                        /\ ret[c] # ""
                        /\ ret[c] = Carries[input_data.parts[
                                        CHOOSE k \in P : \A m \in P : k <= m]].value
        /\ DOMAIN ret \subseteq Channels
        /\ input_data.parts = ContactExample =>
              ret = [email |-> "jane.doe@example.com", phone |-> "(415) 555-1234",
                     linkedin |-> "linkedin.com/in/janedoe"]

C7_Witness ==
    /\ ContactReturned
    /\ input_data.parts = ContactExample
    /\ DOMAIN ret = {"email", "phone", "linkedin"}

\* ------------------------------------------------------------------ extract_awards_and_certifications

\* Line 234.
AwardsKeywords == <<"award", "certification", "certificate", "achievement">>

AwardsRawLines == {"Awards:", "Best Paper (2019)", "(2020)", "", "Skills:"}

AwardsInit ==
    /\ fn = "extract_awards_and_certifications"
    /\ input_data \in
          {[text |-> Join("\n", q)] : q \in SeqsUpTo(AwardsRawLines, MaxLines)}
    /\ pc = "start"
    /\ lines = <<>>
    /\ i = 1
    /\ in_section = FALSE
    /\ NoEdu /\ NoWork /\ NoSummary
    /\ section_content = <<>> /\ awards_and_certs = <<>> /\ skills = <<>>
    /\ ret = NoValue

\* re.sub(r'\([^)]*\)', '', s) from position p on.
RECURSIVE ReSubParens(_, _)
ReSubParens(s, p) ==
    IF p > Len(s) THEN ""
    ELSE IF Ch(s, p) = "(" /\ \E q \in (p + 1)..Len(s) : Ch(s, q) = ")"
    THEN ReSubParens(s, 1 + CHOOSE q \in (p + 1)..Len(s) :
                            /\ Ch(s, q) = ")"
                            /\ \A r \in (p + 1)..(q - 1) : Ch(s, r) # ")")
    ELSE Ch(s, p) \o ReSubParens(s, p + 1)

\* Line 254.
LineWithoutDate(line) == Strip(ReSubParens(line, 1))

\* Line 240.
CleanLine(line) == Lower(Strip(line))

IsAwardsTrigger(clean_line) == ContainsAny(AwardsKeywords, clean_line)

\* Line 248: clean_line and clean_line[0].isupper() and clean_line.endswith(':')
LooksLikeHeader(clean_line) ==
    /\ clean_line # ""
    /\ IsUpperCh(Head(clean_line))
    /\ Ch(clean_line, Len(clean_line)) = ":"

\* Line 231.
AwardsStart ==
    /\ fn = "extract_awards_and_certifications" /\ pc = "start"
    /\ lines' = Split(input_data.text, "\n")
    /\ pc' = "loop"
    /\ UNCHANGED <<args, i, in_section, onlyCommon, ret>>

AwardsAtLine ==
    fn = "extract_awards_and_certifications" /\ pc = "loop" /\ i <= Len(lines)

\* Lines 243-245.
AwardsTrigger ==
    /\ AwardsAtLine
    /\ IsAwardsTrigger(CleanLine(lines[i]))
    /\ in_section' = TRUE
    /\ i' = i + 1
    /\ UNCHANGED <<args, pc, lines, onlyCommon, ret>>

\* Lines 248-256.
AwardsLine ==
    /\ AwardsAtLine
    /\ ~IsAwardsTrigger(CleanLine(lines[i]))
    /\ in_section' = IF in_section /\ LooksLikeHeader(CleanLine(lines[i]))
                     THEN FALSE ELSE in_section
    /\ awards_and_certs' =
          IF in_section' /\ CleanLine(lines[i]) # "" /\ LineWithoutDate(lines[i]) # ""
          THEN Append(awards_and_certs, LineWithoutDate(lines[i]))
          ELSE awards_and_certs
    /\ i' = i + 1
    /\ UNCHANGED <<args, pc, lines, eduVars, workVars, summaryVars, section_content,
                   skills, ret>>

\* Line 258.
AwardsReturn ==
    /\ fn = "extract_awards_and_certifications" /\ pc = "loop" /\ i > Len(lines)
    /\ ret' = awards_and_certs
    /\ pc' = "returned"
    /\ UNCHANGED <<args, lines, i, in_section, onlyCommon>>

AwardsNext == AwardsStart \/ AwardsTrigger \/ AwardsLine \/ AwardsReturn

SpecAwards == AwardsInit /\ [][AwardsNext]_vars

AwardsReturned == fn = "extract_awards_and_certifications" /\ pc = "returned"

\* A line as written that is non-empty, starts with an uppercase character and
\* ends with a colon.
UpperFirstColon(line) ==
    LET s == Strip(line)
    IN  /\ s # ""
        /\ IsUpperCh(Head(s))
        /\ Ch(s, Len(s)) = ":"

\* The lines emitted from line k on when such a line, and no other, exits.
RECURSIVE AwardsByRule(_, _, _)
AwardsByRule(ls, k, inside) ==
    IF k > Len(ls) THEN <<>>
    ELSE IF ContainsAny(AwardsKeywords, Lower(Strip(ls[k])))
    THEN AwardsByRule(ls, k + 1, TRUE)
    ELSE IF inside /\ UpperFirstColon(ls[k])
    THEN AwardsByRule(ls, k + 1, FALSE)
    ELSE IF inside /\ Strip(ReSubParens(ls[k], 1)) # ""
    THEN <<Strip(ReSubParens(ls[k], 1))>> \o AwardsByRule(ls, k + 1, inside)
    ELSE AwardsByRule(ls, k + 1, inside)

\* C11: inside the awards section a non-empty line that starts with an
\* uppercase character and ends with a colon (and holds no trigger keyword)
\* exits the section, so that line and the lines after it are not emitted until
\* a trigger line re-enters; no other line exits.
C11_UpperColonExits ==
    AwardsReturned => ret = AwardsByRule(lines, 1, FALSE)

\* ------------------------------------------------------------------ finding nothing

\* The four extractors that scan for a trigger.
ScanInit == EduInit \/ AwardsInit \/ SummaryInit \/ WorkInit
ScanNext == EduNext \/ AwardsNext \/ SummaryNext \/ WorkNext

SpecScan == ScanInit /\ [][ScanNext]_vars

NoneHas(keywords, texts) ==
    \A k \in 1..Len(texts) : \A w \in keywords : ~Contains(w, Lower(texts[k]))

\* The input has nothing that starts an entry.
NoTrigger ==
    CASE fn = "extract_education" ->
            /\ input_data.kind \in {"doc", "str"}
            /\ pc # "start"
            /\ NoneHas({"education", "academic background", "academic history"}, lines)
      [] fn = "extract_awards_and_certifications" ->
            /\ pc # "start"
            /\ NoneHas({"award", "certification", "certificate", "achievement"}, lines)
      [] fn = "extract_summary" ->
            NoneHas({"summary", "objective", "profile", "about me"}, input_data.sents)
      [] fn = "extract_work_experience" ->
            \/ \A k \in 1..Len(input_data.ents) : input_data.ents[k].label # "ORG"
            \/ \A k \in 1..Len(input_data.ents) : input_data.ents[k].label # "DATE"
      [] OTHER -> FALSE

\* C8: an input with no entry trigger makes the extractor return its empty
\* value (the empty list, the empty string for the summary) and raise no error.
C8_NothingFound ==
    NoTrigger =>
        /\ pc # "raised"
        /\ education = <<>> /\ awards_and_certs = <<>> /\ summary = <<>>
        /\ experience = <<>>
        /\ pc = "returned" => ret = IF fn = "extract_summary" THEN "" ELSE <<>>

C8_Witness ==
    /\ NoTrigger
    /\ fn = "extract_education" /\ pc = "returned"
    /\ \E k \in 1..Len(lines) : DegreeMatch(Lower(lines[k]))
    /\ \E k \in 1..Len(lines) : HasDate(lines[k])
    /\ ret = <<>>

====
